---- MODULE Spec2Model ----
(***************************************************************************)
(* A model of TFTrainer (src/transformers/trainer_tf.py): the control flow *)
(* of train(), evaluate(), predict() and the prediction loop, with the     *)
(* framework objects reduced to the state the trainer reads and writes:    *)
(* the optimizer's iteration counter, the latest checkpoint, the gradient  *)
(* accumulator's fill, and counters of the framework calls made.           *)
(*                                                                         *)
(* Python's None is the empty tuple <<>>; a dataset is <<n>>, n being what *)
(* tf.data.experimental.cardinality reports for it (negative: infinite or  *)
(* unknown); an optimizer or scheduler is <<"passed">> or <<"created">>.   *)
(* A string is a sequence of one-character strings, a dict a sequence of   *)
(* <<key, value>> pairs in insertion order.                                *)
(***************************************************************************)
EXTENDS Integers, Sequences, FiniteSets, TLC

\* ------------------------------------------------------------- bounds

\* Largest cardinality of a training dataset.
MaxTrainExamples == 3
\* Largest cardinality of an evaluation or test dataset.
MaxEvalExamples == 3
\* Largest num_train_epochs.
MaxEpochs == 2
\* Largest global step held by a checkpoint found on disk.
MaxCheckpointStep == 3
\* The enumerate() index of the prediction loop is kept exactly up to this
\* value, which no `steps` reaches, and saturates there ("StepCap or more").
StepCap == MaxEvalExamples + 2

\* ------------------------------------------------------------ helpers

None == <<>>

Card(ds) == ds[1]

\* math.floor(a / b) and math.ceil(a / b) for an integer a and b > 0.
Floor(a, b) == a \div b

Ceil(a, b) == -((-a) \div b)

\* approx = math.floor if dataloader_drop_last else math.ceil; approx(a / b)
Approx(drop_last, a, b) == IF drop_last THEN Floor(a, b) ELSE Ceil(a, b)

\* numpy.int64 % n and numpy.int64 // n: a zero divisor gives 0 (with a
\* RuntimeWarning), it does not raise.
NumpyMod(a, b) == IF b = 0 THEN 0 ELSE a % b

NumpyFloorDiv(a, b) == IF b = 0 THEN 0 ELSE a \div b

Min(a, b) == IF a < b THEN a ELSE b

\* ---------------------------------------------------- strings and dicts

EvalPrefix == <<"e", "v", "a", "l", "_">>

KeyLoss == <<"l", "o", "s", "s">>

KeyAcc == <<"a", "c", "c">>

KeyEvalLoss == EvalPrefix \o KeyLoss

KeyEvalAcc == EvalPrefix \o KeyAcc

\* str.startswith
StartsWith(s, p) == Len(s) >= Len(p) /\ SubSeq(s, 1, Len(p)) = p

DictKeys(d) == [i \in 1..Len(d) |-> d[i][1]]

DictHas(d, k) == \E i \in 1..Len(d) : d[i][1] = k

DictGet(d, k) == d[CHOOSE i \in 1..Len(d) : d[i][1] = k][2]

\* d[k] = v: an existing key keeps its place, a new key goes last.
DictSet(d, k, v) ==
    IF DictHas(d, k)
    THEN [i \in 1..Len(d) |-> IF d[i][1] = k THEN <<k, v>> ELSE d[i]]
    ELSE Append(d, <<k, v>>)

\* d after d.pop(k)
DictDel(d, k) == SelectSeq(d, LAMBDA e : e[1] # k)

\* for key in keys: if not key.startswith("eval_"):
\*     metrics[f"eval_{key}"] = metrics.pop(key)
RECURSIVE PrefixKeys(_, _)
PrefixKeys(d, keys) ==
    IF keys = <<>> THEN d
    ELSE LET key == Head(keys)
         IN  IF StartsWith(key, EvalPrefix)
             THEN PrefixKeys(d, Tail(keys))
             ELSE PrefixKeys(DictSet(DictDel(d, key), EvalPrefix \o key, DictGet(d, key)),
                             Tail(keys))

\* The value of eval_loss.result().numpy() / (steps * eval_batch_size): a
\* number the framework computes, kept as a token no metric value equals.
EvalLossValue == 0

\* Lines 289-298 of _prediction_loop: the metrics dict it returns.
\* computed is compute_metrics' return value (used when it is called).
BuildMetrics(have_compute, have_preds, computed) ==
    LET m0 == IF have_compute /\ have_preds THEN computed ELSE <<>>
        m1 == DictSet(m0, KeyEvalLoss, EvalLossValue)
    IN  PrefixKeys(m1, DictKeys(m1))

\* -------------------------------------------------------------- state

VARIABLES
    \* What the script constructs the trainer with, and the method it calls.
    args, train_dataset, eval_dataset, compute_metrics, prediction_loss_only,
    call, start,
    \* The trainer's and the framework's state.
    optimizer, lr_scheduler, iterations, latest_checkpoint,
    gradient_accumulator, global_step,
    \* train()'s locals, and the apply_gradients calls entered so far.
    steps_per_epoch, t_total, epochs_trained, epoch_iter, step, applyCalls,
    \* The prediction loop's arguments and locals, and what it returns.
    \* pl_cursor is the iterator's place in the dataset that repeat() cycles.
    pl_desc, pl_dataset, pl_steps, pl_num_examples, pl_step, pl_cursor, preds,
    metrics, nested,
    \* Calls that returned so far: training-mode model calls, optimizer steps, _log
    \* calls, checkpoint saves and restores, evaluate() calls completed; and
    \* the test steps of the latest prediction loop (the updates of the
    \* eval_loss metric line 246 created), exact up to StepCap + 1.
    modelCalls, optSteps, logCalls, saves, restores, evalCalls, testSteps,
    \* Position, the exception that ended the call, and the value of Effects
    \* when the latest train(), evaluate() or predict() call was entered.
    pc, failure, entry

inputs == <<args, train_dataset, eval_dataset, compute_metrics,
            prediction_loss_only, call, start>>

trainer == <<optimizer, lr_scheduler, iterations, latest_checkpoint,
             gradient_accumulator, global_step>>

locals == <<steps_per_epoch, t_total, epochs_trained, epoch_iter, step,
            applyCalls>>

ploop == <<pl_desc, pl_dataset, pl_steps, pl_num_examples, pl_step,
           pl_cursor, preds, metrics, nested>>

counts == <<modelCalls, optSteps, logCalls, saves, restores, evalCalls,
            testSteps>>

vars == <<inputs, trainer, locals, ploop, counts, pc, failure, entry>>

NoFailure == [kind |-> "none", site |-> "none"]

\* What a validation error must leave untouched: model calls, optimizer
\* steps, checkpoint operations and global_step.
Effects == <<modelCalls, testSteps, optSteps, iterations, saves, restores,
             latest_checkpoint, global_step>>

\* ------------------------------------------------------------- inputs

BatchSizes == {1, 2}

AccumulationSteps == {1, 2}

Periods == {1, 2}

MaxStepsValues == {-1, 2}

\* tf.data.experimental.INFINITE_CARDINALITY and UNKNOWN_CARDINALITY
UnassertedCardinalities == {-1, -2}

TrainDatasets ==
    {None} \cup {<<n>> : n \in UnassertedCardinalities \cup (1..MaxTrainExamples)}

EvalDatasets ==
    {None} \cup {<<n>> : n \in UnassertedCardinalities \cup (0..MaxEvalExamples)}

MetricKeys == {KeyLoss, KeyAcc, KeyEvalLoss, KeyEvalAcc}

\* What compute_metrics may return: at most two metrics, valued 1 and 2.
ComputedMetrics ==
    {<<>>} \cup {<<<<k, 1>>>> : k \in MetricKeys}
           \cup {<<<<kl[1], 1>>, <<kl[2], 2>>>> :
                    kl \in {x \in MetricKeys \X MetricKeys : x[1] # x[2]}}

\* compute_metrics: None, or a callable stood for by the dict it returns.
ComputeMetricsChoices == {None} \cup {<<m>> : m \in ComputedMetrics}

QuietArgs(bs, acc, drop, ms, ep) ==
    [train_batch_size |-> bs, gradient_accumulation_steps |-> acc,
     eval_batch_size |-> 2, dataloader_drop_last |-> drop,
     max_steps |-> ms, num_train_epochs |-> ep,
     evaluate_during_training |-> FALSE, eval_steps |-> 1,
     logging_steps |-> 2, save_steps |-> 2,
     logging_first_step |-> FALSE, debug |-> FALSE]

InitState ==
    /\ lr_scheduler \in {None, <<"passed">>}
    /\ optimizer \in {None, <<"passed">>}
    /\ global_step = 0
    /\ gradient_accumulator = 0
    /\ steps_per_epoch = 0 /\ t_total = 0 /\ epochs_trained = 0
    /\ epoch_iter = 0 /\ step = 0 /\ applyCalls = 0
    /\ pl_desc = "none" /\ pl_dataset = None /\ pl_steps = 0
    /\ pl_num_examples = 0 /\ pl_step = 0 /\ pl_cursor = 0
    /\ preds = FALSE /\ metrics = None
    /\ nested = FALSE
    /\ modelCalls = 0 /\ optSteps = 0 /\ logCalls = 0 /\ saves = 0
    /\ restores = 0 /\ evalCalls = 0 /\ testSteps = 0
    /\ pc = "idle" /\ failure = NoFailure
    /\ start = [iterations |-> iterations, checkpoint |-> latest_checkpoint,
                optimizer |-> optimizer, lr_scheduler |-> lr_scheduler]
    /\ entry = Effects

\* train() over every shape of dataset, batch, accumulation, epochs and
\* checkpoint, with the optimizer and scheduler both created or both passed.
InitTrainShapes ==
    /\ call = "train"
    /\ train_dataset \in TrainDatasets
    /\ \E bs \in BatchSizes, acc \in AccumulationSteps, drop \in BOOLEAN,
          ms \in MaxStepsValues, ep \in 1..MaxEpochs :
          args = QuietArgs(bs, acc, drop, ms, ep)
    /\ eval_dataset = None /\ compute_metrics = None
    /\ prediction_loss_only = FALSE
    /\ latest_checkpoint \in {None} \cup {<<g>> : g \in {1, MaxCheckpointStep}}
    /\ iterations \in {0, 1}
    /\ InitState
    /\ (optimizer = None) = (lr_scheduler = None)
    /\ optimizer = None => iterations = 0

\* train() on MaxTrainExamples examples without periodic evaluation: every
\* choice of optimizers, logging, saving and debug.
InitTrainPeriods ==
    /\ call = "train"
    /\ train_dataset = <<MaxTrainExamples>>
    /\ \E acc \in AccumulationSteps, lg \in Periods, sv \in Periods,
          first \in BOOLEAN, dbg \in BOOLEAN :
          args = [QuietArgs(1, acc, FALSE, -1, 1) EXCEPT
                     !.logging_steps = lg, !.save_steps = sv,
                     !.logging_first_step = first, !.debug = dbg]
    /\ eval_dataset = None /\ compute_metrics = None
    /\ prediction_loss_only = FALSE
    /\ latest_checkpoint = None
    /\ iterations = 0
    /\ InitState

\* train() with evaluation during training.
InitTrainEval ==
    /\ call = "train"
    /\ train_dataset = <<MaxTrainExamples>>
    /\ \E es \in Periods, acc \in AccumulationSteps :
          args = [QuietArgs(1, acc, FALSE, -1, 1) EXCEPT
                     !.evaluate_during_training = TRUE, !.eval_steps = es]
    /\ eval_dataset \in {None, <<-2>>, <<0>>, <<MaxEvalExamples>>}
    /\ compute_metrics \in {None, <<<<<<KeyAcc, 1>>>>>>}
    /\ prediction_loss_only \in BOOLEAN
    /\ latest_checkpoint = None
    /\ iterations = 0
    /\ InitState
    /\ optimizer = None /\ lr_scheduler = None

\* evaluate() and predict() called on a trainer that has not trained.
InitPredict ==
    /\ call \in {"evaluate", "predict"}
    /\ train_dataset = None
    /\ \E bs \in BatchSizes, drop \in BOOLEAN :
          args = [QuietArgs(1, 1, drop, -1, 1) EXCEPT !.eval_batch_size = bs]
    /\ eval_dataset \in {None, <<1>>}
    /\ compute_metrics \in ComputeMetricsChoices
    /\ prediction_loss_only \in BOOLEAN
    /\ latest_checkpoint = None
    /\ iterations = 0
    /\ InitState
    /\ optimizer = None /\ lr_scheduler = None

Init == InitTrainShapes \/ InitTrainPeriods \/ InitTrainEval \/ InitPredict

\* --------------------------------------------------------- exceptions

\* A faulty variant of Raise: the training loop catches the exception, records it and
\* goes on to the end of the pass.
RaiseAndContinue(kind, site) ==
    /\ pc' = "decide_break"
    /\ failure' = [kind |-> kind, site |-> site]

\* No try/except in the module: an exception raised at a call site ends the
\* running train(), evaluate() or predict() with that exception.
Raise(kind, site) ==
    /\ pc' = "raised"
    /\ failure' = [kind |-> kind, site |-> site]

\* ------------------------------------------------------ dataset getters

\* Line 123
TotalTrainBatchSize == args.train_batch_size * args.gradient_accumulation_steps

\* Lines 120-127
get_train_tfdataset ==
    IF train_dataset = None THEN [raises |-> TRUE, num_train_examples |-> 0]
    ELSE IF Card(train_dataset) < 0
         THEN [raises |-> TRUE, num_train_examples |-> Card(train_dataset)]
         ELSE [raises |-> FALSE, num_train_examples |-> Card(train_dataset)]

NumTrainExamples == get_train_tfdataset.num_train_examples

\* A faulty variant of get_eval_tfdataset: the cardinality is not checked.
get_eval_tfdataset_unchecked(arg) ==
    IF arg = None /\ eval_dataset = None
    THEN [raises |-> TRUE, steps |-> 0, num_examples |-> 0]
    ELSE LET ds == IF arg # None THEN arg ELSE eval_dataset
             n == Card(ds)
         IN  [raises |-> FALSE,
              steps |-> Approx(args.dataloader_drop_last, n, args.eval_batch_size),
              num_examples |-> n]

\* Lines 146-163
get_eval_tfdataset(arg) ==
    IF arg = None /\ eval_dataset = None
    THEN [raises |-> TRUE, steps |-> 0, num_examples |-> 0]
    ELSE LET ds == IF arg # None THEN arg ELSE eval_dataset
             n == Card(ds)
         IN  [raises |-> n < 0,
              steps |-> Approx(args.dataloader_drop_last, n, args.eval_batch_size),
              num_examples |-> n]

\* Lines 173-186
get_test_tfdataset(test_dataset) ==
    LET n == Card(test_dataset)
    IN  [raises |-> n < 0,
         steps |-> Approx(args.dataloader_drop_last, n, args.eval_batch_size),
         num_examples |-> n]

\* ---------------------------------------------------------------- train

\* Lines 370-376: <<steps_per_epoch, t_total>>.
TrainingPlan ==
    IF args.max_steps > 0
    THEN <<args.max_steps, args.max_steps>>
    ELSE LET spe == Approx(args.dataloader_drop_last, NumTrainExamples,
                           TotalTrainBatchSize)
         IN  <<spe, spe * args.num_train_epochs>>

\* Lines 363-376: the dataset check, the accumulator reset, the plan.
Train_Start ==
    /\ pc = "idle" /\ call = "train"
    /\ entry' = Effects
    /\ IF get_train_tfdataset.raises
       THEN /\ Raise("ValueError", "get_train_tfdataset")
            /\ UNCHANGED <<gradient_accumulator, steps_per_epoch, t_total>>
       ELSE /\ gradient_accumulator' = 0
            /\ steps_per_epoch' = TrainingPlan[1]
            /\ t_total' = TrainingPlan[2]
            /\ pc' = "scope"
            /\ UNCHANGED failure
    /\ UNCHANGED <<inputs, optimizer, lr_scheduler, iterations,
                   latest_checkpoint, global_step, epochs_trained, epoch_iter,
                   step, applyCalls, ploop, counts>>

\* Lines 197-206: <<optimizer, lr_scheduler>> after the call.
create_optimizer_and_scheduler(opt, sched) ==
    IF opt = None /\ sched = None
    THEN <<<<"created">>, <<"created">>>>
    ELSE <<opt, sched>>

\* Lines 387-390, evaluated with global_step as line 381 read it.
EpochsTrained(gs) ==
    NumpyFloorDiv(gs, NumpyFloorDiv(NumTrainExamples,
                                    args.gradient_accumulation_steps))

\* Lines 378-430: optimizer, checkpoint manager, restore.
Train_Scope ==
    /\ pc = "scope"
    /\ LET os == create_optimizer_and_scheduler(optimizer, lr_scheduler)
       IN  /\ optimizer' = os[1]
           /\ lr_scheduler' = os[2]
           /\ IF os[1] = None
              THEN \* line 380: None has no attribute iterations
                   /\ Raise("AttributeError", "optimizer.iterations")
                   /\ UNCHANGED <<global_step, epochs_trained, epoch_iter,
                                  iterations, restores>>
              ELSE /\ global_step' = iterations
                   /\ IF latest_checkpoint # None
                      THEN /\ epochs_trained' = EpochsTrained(iterations)
                           /\ iterations' = Card(latest_checkpoint)
                           /\ restores' = restores + 1
                      ELSE /\ epochs_trained' = 1
                           /\ UNCHANGED <<iterations, restores>>
                   /\ epoch_iter' = epochs_trained'
                   /\ pc' = "epoch_head"
                   /\ UNCHANGED failure
    /\ UNCHANGED <<inputs, latest_checkpoint, gradient_accumulator,
                   steps_per_epoch, t_total, step, applyCalls, ploop, modelCalls,
                   optSteps, logCalls, saves, evalCalls, testSteps, entry>>

\* Line 406
Epochs == IF args.max_steps > 0 THEN 1 ELSE args.num_train_epochs

\* Line 431: for epoch_iter in range(epochs_trained, int(epochs + 1)), and
\* lines 484-490 once the range is exhausted.
Train_EpochHead ==
    /\ pc = "epoch_head"
    /\ IF epoch_iter < Epochs + 1
       THEN /\ step' = 0
            /\ pc' = "batch_head"
       ELSE /\ pc' = "returned"
            /\ UNCHANGED step
    /\ UNCHANGED <<inputs, trainer, steps_per_epoch, t_total, epochs_trained,
                   epoch_iter, applyCalls, ploop, counts, failure, entry>>

\* Lines 436-438: the next batch of the endlessly repeated dataset.
Train_BatchHead ==
    /\ pc = "batch_head"
    /\ global_step' = iterations
    /\ IF steps_per_epoch = 0
       THEN \* line 438: (step + 1) / self.steps_per_epoch
            /\ Raise("ZeroDivisionError", "epoch_logging")
            /\ UNCHANGED applyCalls
       ELSE /\ applyCalls' = applyCalls + 1
            /\ pc' = "apply"
            /\ UNCHANGED failure
    /\ UNCHANGED <<inputs, optimizer, lr_scheduler, iterations,
                   latest_checkpoint, gradient_accumulator, steps_per_epoch,
                   t_total, epochs_trained, epoch_iter, step, ploop, counts,
                   entry>>

\* Lines 509-512 and 492-506: gradient_accumulation_steps == 1. Every call
\* made is a framework call that may raise: the model call (line 493), the
\* calls of training_step after it (lines 495-503), the optimizer step
\* (line 512).
Train_ApplyGradients ==
    /\ pc = "apply" /\ args.gradient_accumulation_steps = 1
    /\ \/ /\ modelCalls' = modelCalls + 1
          /\ optSteps' = optSteps + 1
          /\ iterations' = iterations + 1
          /\ pc' = "after_step"
          /\ UNCHANGED failure
       \/ /\ Raise("FrameworkError", "model")
          /\ UNCHANGED <<modelCalls, optSteps, iterations>>
       \/ /\ Raise("FrameworkError", "training_step")
          /\ modelCalls' = modelCalls + 1
          /\ UNCHANGED <<optSteps, iterations>>
       \/ /\ Raise("FrameworkError", "optimizer.apply_gradients")
          /\ modelCalls' = modelCalls + 1
          /\ UNCHANGED <<optSteps, iterations>>
    /\ UNCHANGED <<inputs, optimizer, lr_scheduler, latest_checkpoint,
                   gradient_accumulator, global_step, locals, ploop, logCalls,
                   saves, restores, evalCalls, testSteps, entry>>

\* Lines 514-516: gradient_accumulation_steps > 1. The slice bound of line
\* 515, self.args.train_batch_size / self.args.n_replicas, is a true division
\* and so a float for all arguments: slicing the features with it raises
\* TypeError in the first pass of the loop, before any model call. Lines
\* 518-530 are never reached.
Train_MicroStep ==
    /\ pc = "apply" /\ args.gradient_accumulation_steps > 1
    /\ Raise("TypeError", "apply_gradients:515")
    /\ UNCHANGED <<inputs, trainer, locals, ploop, counts, entry>>

\* Lines 442-455: the debug log.
Train_DebugLog ==
    /\ pc = "after_step"
    /\ logCalls' = IF args.debug THEN logCalls + 1 ELSE logCalls
    /\ pc' = "decide_eval"
    /\ UNCHANGED <<inputs, trainer, locals, ploop, modelCalls, optSteps, saves,
                   restores, evalCalls, testSteps, failure, entry>>

\* ----------------------------------------------------- evaluate, predict

\* Lines 335-337 and 238-250: evaluate(arg) up to the prediction loop.
evaluate(arg, from_train) ==
    /\ entry' = Effects
    /\ pl_desc' = "Evaluation"
    /\ pl_dataset' = arg
    /\ nested' = from_train
    /\ LET r == get_eval_tfdataset(arg)
       IN  IF r.raises
           THEN /\ Raise("ValueError", "get_eval_tfdataset")
                /\ UNCHANGED <<pl_steps, pl_num_examples, pl_step, pl_cursor,
                               preds, testSteps>>
           ELSE /\ pl_steps' = r.steps
                /\ pl_num_examples' = r.num_examples
                /\ pl_step' = 0
                /\ pl_cursor' = 0
                /\ preds' = FALSE
                /\ testSteps' = 0
                /\ pc' = "pl_loop"
                /\ UNCHANGED failure
    /\ UNCHANGED <<inputs, trainer, locals, metrics, modelCalls, optSteps,
                   logCalls, saves, restores, evalCalls>>

\* Lines 457-462
Train_DecideEval ==
    /\ pc = "decide_eval"
    /\ IF /\ global_step > 0
          /\ args.evaluate_during_training
          /\ NumpyMod(global_step, args.eval_steps) = 0
       THEN evaluate(None, TRUE)
       ELSE /\ pc' = "decide_log"
            /\ UNCHANGED <<inputs, trainer, locals, ploop, counts, failure,
                           entry>>

\* evaluate(eval_dataset) called by the script.
Evaluate_Start ==
    /\ pc = "idle" /\ call = "evaluate"
    /\ \E arg \in EvalDatasets : evaluate(arg, FALSE)

\* Lines 579-581 and 238-250: predict(test_dataset) called by the script.
Predict_Start ==
    /\ pc = "idle" /\ call = "predict"
    /\ \E test_dataset \in EvalDatasets \ {None} :
          /\ entry' = Effects
          /\ pl_desc' = "Prediction"
          /\ pl_dataset' = test_dataset
          /\ nested' = FALSE
          /\ LET r == get_test_tfdataset(test_dataset)
             IN  IF r.raises
                 THEN /\ Raise("ValueError", "get_test_tfdataset")
                      /\ UNCHANGED <<pl_steps, pl_num_examples, pl_step,
                                     pl_cursor, preds, testSteps>>
                 ELSE /\ pl_steps' = r.steps
                      /\ pl_num_examples' = r.num_examples
                      /\ pl_step' = 0
                      /\ pl_cursor' = 0
                      /\ preds' = FALSE
                      /\ testSteps' = 0
                      /\ pc' = "pl_loop"
                      /\ UNCHANGED failure
    /\ UNCHANGED <<inputs, trainer, locals, metrics, modelCalls, optSteps,
                   logCalls, saves, restores, evalCalls>>

\* Lines 157-161 and 180-184: a batch takes the next batch_size elements of
\* the dataset repeated without end.
NextCursor(cursor, batch_size, n) ==
    IF n > 0 THEN (cursor + batch_size) % n ELSE cursor

\* Lines 252-287: one pass of the loop over the repeated, batched dataset.
\* The break at line 286 is inside `if not prediction_loss_only`.
PL_Batch ==
    /\ pc = "pl_loop" /\ pl_num_examples # 0
    /\ \/ /\ testSteps' = Min(testSteps + 1, StepCap + 1)
          /\ pl_cursor' = NextCursor(pl_cursor, args.eval_batch_size,
                                     pl_num_examples)
          /\ IF ~prediction_loss_only
             THEN /\ preds' = TRUE
                  /\ IF pl_step = pl_steps
                     THEN /\ pc' = "pl_finish"
                          /\ UNCHANGED pl_step
                     ELSE /\ pl_step' = Min(pl_step + 1, StepCap)
                          /\ UNCHANGED pc
             ELSE /\ pl_step' = Min(pl_step + 1, StepCap)
                  /\ UNCHANGED <<preds, pc>>
          /\ UNCHANGED failure
       \/ \* the model call or the metric update raises (lines 347-349)
          /\ Raise("FrameworkError", "test_step")
          /\ pl_cursor' = NextCursor(pl_cursor, args.eval_batch_size,
                                     pl_num_examples)
          /\ UNCHANGED <<testSteps, preds, pl_step>>
       \/ \* collecting the predictions raises (lines 254-284)
          /\ ~prediction_loss_only
          /\ Raise("FrameworkError", "collect_predictions")
          /\ testSteps' = Min(testSteps + 1, StepCap + 1)
          /\ pl_cursor' = NextCursor(pl_cursor, args.eval_batch_size,
                                     pl_num_examples)
          /\ UNCHANGED <<preds, pl_step>>
    /\ UNCHANGED <<inputs, trainer, locals, pl_desc, pl_dataset, pl_steps,
                   pl_num_examples, metrics, nested, modelCalls, optSteps,
                   logCalls, saves, restores, evalCalls, entry>>

\* Line 252 on a dataset with no element: repeat() of it has none either.
PL_Exhausted ==
    /\ pc = "pl_loop" /\ pl_num_examples = 0
    /\ pc' = "pl_finish"
    /\ UNCHANGED <<inputs, trainer, locals, ploop, counts, failure, entry>>

\* Lines 289-304, then evaluate's lines 339-344 or predict's return.
PL_Finish ==
    /\ pc = "pl_finish"
    /\ metrics' = BuildMetrics(compute_metrics # None, preds,
                               IF compute_metrics # None
                               THEN compute_metrics[1] ELSE <<>>)
    /\ IF pl_desc = "Evaluation"
       THEN /\ logCalls' = logCalls + 1
            /\ evalCalls' = evalCalls + 1
       ELSE UNCHANGED <<logCalls, evalCalls>>
    /\ pc' = IF nested THEN "decide_log" ELSE "returned"
    /\ UNCHANGED <<inputs, trainer, locals, pl_desc, pl_dataset, pl_steps,
                   pl_num_examples, pl_step, pl_cursor, preds, nested,
                   modelCalls, optSteps, saves, restores, testSteps, failure,
                   entry>>

\* --------------------------------------------- train: the periodic work

\* Lines 464-472
Train_DecideLog ==
    /\ pc = "decide_log"
    /\ IF \/ global_step > 0 /\ NumpyMod(global_step, args.logging_steps) = 0
          \/ global_step = 1 /\ args.logging_first_step
       THEN IF lr_scheduler = None
            THEN \* line 469: None is not callable
                 /\ Raise("TypeError", "lr_scheduler")
                 /\ UNCHANGED logCalls
            ELSE /\ logCalls' = logCalls + 1
                 /\ pc' = "decide_save"
                 /\ UNCHANGED failure
       ELSE /\ pc' = "decide_save"
            /\ UNCHANGED <<logCalls, failure>>
    /\ UNCHANGED <<inputs, trainer, locals, ploop, modelCalls, optSteps, saves,
                   restores, evalCalls, testSteps, entry>>

\* Lines 474-477: the checkpoint holds the optimizer as it is now.
Train_DecideSave ==
    /\ pc = "decide_save"
    /\ IF global_step > 0 /\ NumpyMod(global_step, args.save_steps) = 0
       THEN \/ /\ latest_checkpoint' = <<iterations>>
               /\ saves' = saves + 1
               /\ pc' = "decide_break"
               /\ UNCHANGED failure
            \/ /\ Raise("FrameworkError", "ckpt_manager.save")
               /\ UNCHANGED <<latest_checkpoint, saves>>
       ELSE /\ pc' = "decide_break"
            /\ UNCHANGED <<latest_checkpoint, saves, failure>>
    /\ UNCHANGED <<inputs, optimizer, lr_scheduler, iterations,
                   gradient_accumulator, global_step, locals, ploop,
                   modelCalls, optSteps, logCalls, restores, evalCalls,
                   testSteps, entry>>

\* Lines 479-482: the end of the epoch, or the next batch.
Train_DecideBreak ==
    /\ pc = "decide_break"
    /\ IF global_step > 0 /\ NumpyMod(global_step, steps_per_epoch) = 0
       THEN /\ epoch_iter' = epoch_iter + 1
            /\ pc' = "epoch_head"
            /\ UNCHANGED step
       ELSE /\ step' = step + 1
            /\ pc' = "batch_head"
            /\ UNCHANGED epoch_iter
    /\ UNCHANGED <<inputs, trainer, steps_per_epoch, t_total, epochs_trained,
                   applyCalls, ploop, counts, failure, entry>>

\* ------------------------------------------------------ specifications

NextPredict ==
    \/ Evaluate_Start
    \/ Predict_Start
    \/ PL_Batch
    \/ PL_Exhausted
    \/ PL_Finish

Next ==
    \/ Train_Start
    \/ Train_Scope
    \/ Train_EpochHead
    \/ Train_BatchHead
    \/ Train_ApplyGradients
    \/ Train_MicroStep
    \/ Train_DebugLog
    \/ Train_DecideEval
    \/ Train_DecideLog
    \/ Train_DecideSave
    \/ Train_DecideBreak
    \/ NextPredict

Spec == Init /\ [][Next]_vars

\* evaluate() and predict() alone. The interpreter runs the next statement
\* of a call that has neither returned nor raised.
FairSpecPredict == InitPredict /\ [][NextPredict]_vars /\ WF_vars(NextPredict)

\* ------------------------------------------------------------- claims

TrainReturned == call = "train" /\ pc = "returned"

\* C1: a train() call that starts with no checkpoint and an optimizer at
\* iteration 0 has performed exactly t_total optimizer steps when it returns.
C1_FreshTrainPerformsTotalSteps ==
    (TrainReturned /\ start.checkpoint = None /\ start.iterations = 0)
        => optSteps = t_total

\* C2: the prediction loop, once entered on a dataset of known cardinality,
\* is left (to build the metrics, or by an exception), whatever
\* prediction_loss_only is.
C2_PredictionLoopTerminates ==
    (pc = "pl_loop") ~> (pc \in {"pl_finish", "returned", "raised"})

\* C3: a train() call that finds a checkpoint saved at global step G (with
\* G <= t_total, the optimizer at iteration 0) has performed the remaining t_total - G
\* optimizer steps when it returns.
C3_ResumedTrainPerformsRemainingSteps ==
    (/\ TrainReturned
     /\ start.checkpoint # None /\ start.iterations = 0
     /\ Card(start.checkpoint) <= t_total)
        => optSteps = t_total - Card(start.checkpoint)

ValueErrorAt(site) ==
    /\ pc = "raised"
    /\ failure = [kind |-> "ValueError", site |-> site]
    /\ Effects = entry

\* The dataset an evaluate() call works on.
EvaluatedDataset == IF pl_dataset # None THEN pl_dataset ELSE eval_dataset

\* C4: train() without a train_dataset or on one of unasserted cardinality,
\* evaluate() without any eval dataset or on one of unasserted cardinality,
\* and predict() on a dataset of unasserted cardinality have raised
\* ValueError with the model calls, test steps, optimizer steps, optimizer
\* iterations, checkpoint saves and restores, latest checkpoint and
\* global_step as they were when the call was entered.
C4_ValidationErrorsFailImmediately ==
    /\ (/\ call = "train" /\ pc # "idle"
        /\ (train_dataset = None \/ Card(train_dataset) < 0))
           => ValueErrorAt("get_train_tfdataset")
    /\ (/\ pl_desc = "Evaluation"
        /\ (EvaluatedDataset = None \/ Card(EvaluatedDataset) < 0))
           => ValueErrorAt("get_eval_tfdataset")
    /\ (pl_desc = "Prediction" /\ Card(pl_dataset) < 0)
           => ValueErrorAt("get_test_tfdataset")

\* C4 witness: an evaluate() inside train(), after optimizer steps, raised
\* ValueError on a dataset of unknown cardinality and changed nothing.
C4_Witness ==
    /\ ValueErrorAt("get_eval_tfdataset")
    /\ nested /\ optSteps > 0
    /\ eval_dataset = <<-2>>

PrefixedKey(k) == IF StartsWith(k, EvalPrefix) THEN k ELSE EvalPrefix \o k

\* C5: the metrics evaluate() and predict() return hold the evaluation loss
\* under eval_loss, only keys that start with eval_, and every metric
\* compute_metrics returned, with its value, under its prefixed name.
C5_MetricsPrefixedAndComplete ==
    (call \in {"evaluate", "predict"} /\ pc = "returned") =>
        /\ DictHas(metrics, KeyEvalLoss)
        /\ DictGet(metrics, KeyEvalLoss) = EvalLossValue
        /\ \A i \in 1..Len(metrics) : StartsWith(metrics[i][1], EvalPrefix)
        /\ (compute_metrics # None /\ preds) =>
              \A i \in 1..Len(compute_metrics[1]) :
                 LET e == compute_metrics[1][i]
                 IN  /\ DictHas(metrics, PrefixedKey(e[1]))
                     /\ DictGet(metrics, PrefixedKey(e[1])) = e[2]

\* C6: once train() has run create_optimizer_and_scheduler, a passed
\* optimizer or scheduler is still the trainer's, and both are set.
C6_OptimizersKeptAndDefaulted ==
    (/\ call = "train" /\ pc \notin {"idle", "scope"}
     /\ failure.site # "get_train_tfdataset") =>
        /\ start.optimizer # None => optimizer = start.optimizer
        /\ start.lr_scheduler # None => lr_scheduler = start.lr_scheduler
        /\ optimizer # None
        /\ lr_scheduler # None

\* C7: once a call inside train() has raised, train() has ended with that
\* exception: it stays the recorded failure, and no optimizer step, model
\* call, evaluation, log entry or checkpoint save follows.
C7_FailureEndsTrain ==
    /\ []((call = "train" /\ failure # NoFailure) => pc = "raised")
    /\ [][(call = "train" /\ failure # NoFailure) =>
             UNCHANGED <<pc, failure, optSteps, iterations, modelCalls,
                         testSteps, evalCalls, logCalls, saves,
                         latest_checkpoint>>]_vars

\* C7 witness: a checkpoint save failed after two optimizer steps and
\* train() ended with that failure.
C7_Witness ==
    /\ call = "train" /\ pc = "raised"
    /\ failure = [kind |-> "FrameworkError", site |-> "ckpt_manager.save"]
    /\ optSteps >= 2

\* C8: when the prediction loop is left, the model has run on exactly
\* `steps` batches.
C8_PredictionRunsStepsBatches ==
    (pc = "pl_finish") => testSteps = pl_steps

\* C9: where train() decides on evaluation, logging and saving, global_step
\* is the optimizer's iteration counter, and a checkpoint just saved for
\* step global_step holds the optimizer after global_step steps.
C9_GlobalStepIsIterations ==
    /\ pc \in {"decide_eval", "decide_log", "decide_save"}
          => global_step = iterations
    /\ (pc = "decide_break" /\ global_step > 0
        /\ NumpyMod(global_step, args.save_steps) = 0)
          => latest_checkpoint = <<global_step>>

\* C10: when no framework call has failed, every apply_gradients call that
\* has been entered and left has applied the optimizer exactly once and left
\* the accumulator empty, with gradient_accumulation_steps = 1 and with
\* gradient_accumulation_steps > 1.
C10_AccumulationDiscipline ==
    (call = "train" /\ pc # "apply" /\ failure.kind # "FrameworkError") =>
        /\ optSteps = applyCalls
        /\ gradient_accumulator = 0

====
